---- MODULE Spec2Model ----
(***************************************************************************)
(* photopy: a bounded-concurrency media importer (src/photopy.go).         *)
(*                                                                         *)
(* main walks the source tree (Scandir) on one goroutine and starts one    *)
(* Import goroutine per regular file.  The gate is the pair (pcount, ok):  *)
(* pcount is touched by the main goroutine only, ok is a buffered channel  *)
(* of capacity flagMaxProcs on which every Import sends one token from a   *)
(* deferred function.  The four stats counters are unguarded globals.      *)
(***************************************************************************)
EXTENDS Integers, Sequences, FiniteSets, TLC

\* ---------------------------------------------------------------- bounds
MaxFiles == 2
MaxProcsBound == 2
MaxRuns == 2

Files == 1..MaxFiles

\* ------------------------------------------------------- inputs of a run
\* What getExifData returns for a file: an error, or the tags Import reads.
\* "date" stands for the value of the first non-empty tag of dateTimeFields.
GoodDate == "2021:05:07 14:30:00"
BadDate == "yesterday"
TagSets ==
  { [err |-> TRUE,  FileType |-> "",     date |-> ""],
    [err |-> FALSE, FileType |-> "JPEG", date |-> ""],
    [err |-> FALSE, FileType |-> "JPEG", date |-> BadDate],
    [err |-> FALSE, FileType |-> "JPEG", date |-> GoodDate],
    [err |-> FALSE, FileType |-> "MP3",  date |-> ""] }

\* The regular expression of Import matches the value.
DateMatches(v) == v = GoodDate

\* The destination path Import builds.  Two files with the same date and the
\* same first four hash characters (resp. the same artist, album and track)
\* get the same path.
MP3Path == "to/daft_punk/discovery/1-one_more_time_ab12.mp3"
DatedPath == "to/2021/05-May/07-Friday/143000-AB12.jpg"
Dests == {MP3Path, DatedPath}
Rename(t) == IF t.FileType = "MP3" THEN MP3Path ELSE DatedPath

\* The source tree: the entries of each directory in Readdir order.  An entry
\* is a file id, or 0 for the sub-directory.
Root == "from"
Sub == "sub"
Trees ==
  { [d \in {Root, Sub} |-> IF d = Root THEN [i \in 1..MaxFiles |-> i] ELSE << >>],
    [d \in {Root, Sub} |-> IF d = Root THEN <<0>> \o [i \in 1..(MaxFiles - 1) |-> i + 1]
                                       ELSE <<1>>],
    [d \in {Root, Sub} |-> IF d = Root THEN <<1, 0>> \o [i \in 1..(MaxFiles - 1) |-> i + 1]
                                       ELSE << >>] }

\* Whether the sub-directory can be listed: an empty one that can be listed
\* adds nothing to the tree without it.
Readable(t) ==
  IF \A i \in 1..Len(t[Root]) : t[Root][i] # 0 THEN {TRUE}
  ELSE IF t[Sub] = << >> THEN {FALSE}
  ELSE BOOLEAN

Counters == {"statsCopied", "statsMoved", "statsSkipped", "statsNotExif"}
\* A destination path holds no file, a file that was there before the first
\* run (owner -1), or the bytes of source file "owner" (all of them: full).
NoFile == [owner |-> 0, full |-> FALSE]
OldFile == [owner |-> -1, full |-> TRUE]

VARIABLES
  flagMaxProcs,  \* *flagMaxProcs
  flagMove,      \* *flagMove
  flagDryRun,    \* *flagDryRun
  rootsOK,       \* verifyDirectory succeeds on both roots
  tree,          \* the source tree
  readable,      \* the sub-directory can be stat'ed, opened and listed
  tags,          \* file -> what getExifData returns for it
  srcExists,     \* file -> the source file is still in the source tree
  dst,           \* destination path -> the file there (owner 0: none)
  dirs,          \* destination paths whose parent directory was created
  pcount,        \* var pcount
  ok,            \* number of tokens buffered in the channel ok
  stats,         \* the four counters
  mpc,           \* position of the main goroutine
  stack,         \* Scandir activations: <<directory, index of the entry>>
  joinI,         \* i of the join loop of main
  task,          \* file -> the Import goroutine of the file
  crashed,       \* the process died of an unrecovered panic
  printed,       \* the counters as main printed them
  run,           \* number of the run (the program is started again)
  hist,          \* history: bookkeeping for the properties
  nin,           \* naming: the tags and the file name given to the naming code
  nout           \* naming: what the naming code returned for nin

config == <<flagMaxProcs, flagMove, flagDryRun, rootsOK, tree, readable, tags, nin, nout>>
fsys == <<srcExists, dst, dirs>>
gate == <<pcount, ok>>
vars == <<flagMaxProcs, flagMove, flagDryRun, rootsOK, tree, readable, tags,
          srcExists, dst, dirs, pcount, ok, stats, mpc, stack, joinI, task,
          crashed, printed, run, hist, nin, nout>>

\* An Import goroutine: its position, the counter it increments, the value
\* it read of it, err of Import, and history: increments performed, the
\* destination was written, os.Stat found the destination, a file operation
\* was called, tokens sent, the file reached the
\* destination (by os.Rename or by a Copy that returned nil).
IdleTask ==
  [pc |-> "idle", ctr |-> "none", tmp |-> 0, err |-> FALSE, n |-> 0, wrote |-> FALSE,
   found |-> FALSE, io |-> FALSE, sent |-> 0, placed |-> FALSE]
ZeroStats == [c \in Counters |-> 0]
\* History: increments performed per counter, the file trees when the run
\* started, what each task did in the previous run, the first writer of each
\* destination, the Copy and Move calls of the run that returned nil, the
\* go statements of the run per file.
HistInit(d0, r0) ==
  [incs |-> ZeroStats, dst0 |-> d0, dirs0 |-> r0, src0 |-> [f \in Files |-> TRUE],
   prev |-> [f \in Files |-> "none"], first |-> [d \in Dests |-> d0[d].owner],
   placed |-> 0, spawns |-> [f \in Files |-> 0]]

\* The state of a process that has just been started.
ProcInit ==
  /\ pcount = 0
  /\ ok = 0
  /\ stats = ZeroStats
  /\ mpc = "start"
  /\ stack = << >>
  /\ joinI = 0
  /\ task = [f \in Files |-> IdleTask]
  /\ crashed = FALSE
  /\ printed = << >>

Init ==
  /\ flagMaxProcs \in 0..MaxProcsBound
  /\ flagMove \in BOOLEAN
  /\ flagDryRun \in BOOLEAN
  /\ rootsOK \in BOOLEAN
  /\ tree \in Trees
  /\ readable \in Readable(tree)
  /\ tags \in [Files -> TagSets]
  /\ srcExists = [f \in Files |-> TRUE]
  /\ dst \in [Dests -> {NoFile, OldFile}]
  /\ dirs = {d \in Dests : dst[d] # NoFile}
  /\ ProcInit
  /\ run = 1
  /\ hist = HistInit(dst, dirs)
  /\ nin = << >>
  /\ nout = << >>

\* ------------------------------------------------------------ helpers
Alive == ~crashed /\ mpc \notin {"done", "exit"}
Top == stack[Len(stack)]
Replace(frames, fr) == [frames EXCEPT ![Len(frames)] = fr]
Pop(frames) == SubSeq(frames, 1, Len(frames) - 1)

\* Readdir: the entries of d that exist when the directory is listed.
IsDir(e) == e = 0
Listing(d) == SelectSeq(tree[d], LAMBDA e : IsDir(e) \/ srcExists[e])

\* os.Stat, os.Open or Readdir of d fails.
ListFails(d) == d = Sub /\ ~readable

GateFullOffByOne == pcount > flagMaxProcs

\* "if pcount >= *flagMaxProcs": the walker has to take a token first.
GateFull == pcount >= flagMaxProcs

JoinMoreOneShort == joinI < pcount - 1

JoinMoreOneTooMany == joinI <= pcount

\* "i < pcount": the join loop of main has another token to take.
JoinMore == joinI < pcount

\* Import tasks between "go Import" and their send on ok.
Started == {f \in Files : task[f].pc # "idle"}
Sent == {f \in Files : task[f].pc \in {"done", "fatal"}}
Running == Started \ Sent

\* ------------------------------------------------------------ main
\* make(chan int, *flagMaxProcs), the two verifyDirectory calls, and the call
\* of Scandir on the source root.
MainStart ==
  /\ Alive /\ mpc = "start"
  /\ IF rootsOK
       THEN /\ mpc' = "enter"
            /\ stack' = <<[dir |-> Root, files |-> << >>, i |-> 0]>>
       ELSE /\ mpc' = "exit"
            /\ UNCHANGED stack
  /\ UNCHANGED <<config, fsys, gate, stats, joinI, task, crashed, printed, run, hist>>

ScandirEnterPropagates ==
  /\ Alive /\ mpc = "enter"
  /\ IF ListFails(Top.dir)
       THEN /\ stack' = << >>
            /\ mpc' = "join"
       ELSE /\ stack' = Replace(stack, [Top EXCEPT !.files = Listing(Top.dir), !.i = 1])
            /\ mpc' = "loop"
  /\ UNCHANGED <<config, fsys, gate, stats, joinI, task, crashed, printed, run, hist>>

\* Scandir up to Readdir: an error returns to the caller, which ignores it.
ScandirEnter ==
  /\ Alive /\ mpc = "enter"
  /\ IF ListFails(Top.dir)
       THEN IF Len(stack) = 1
              THEN /\ stack' = << >>
                   /\ mpc' = "join"
              ELSE /\ stack' = Replace(Pop(stack), [stack[Len(stack) - 1] EXCEPT !.i = @ + 1])
                   /\ mpc' = "loop"
       ELSE /\ stack' = Replace(stack, [Top EXCEPT !.files = Listing(Top.dir), !.i = 1])
            /\ mpc' = "loop"
  /\ UNCHANGED <<config, fsys, gate, stats, joinI, task, crashed, printed, run, hist>>

\* One iteration of "for _, file := range files" up to the gate test, or the
\* return of Scandir at the end of the range.
ScandirLoop ==
  /\ Alive /\ mpc = "loop"
  /\ IF Top.i > Len(Top.files)
       THEN IF Len(stack) = 1
              THEN /\ stack' = << >>
                   /\ mpc' = "join"
              ELSE /\ stack' = Replace(Pop(stack), [stack[Len(stack) - 1] EXCEPT !.i = @ + 1])
                   /\ mpc' = "loop"
       ELSE IF IsDir(Top.files[Top.i])
              THEN /\ stack' = Append(stack, [dir |-> Sub, files |-> << >>, i |-> 0])
                   /\ mpc' = "enter"
              ELSE /\ mpc' = IF GateFull THEN "wait" ELSE "go"
                   /\ UNCHANGED stack
  /\ UNCHANGED <<config, fsys, gate, stats, joinI, task, crashed, printed, run, hist>>

ScandirWaitForgets ==
  /\ Alive /\ mpc = "wait"
  /\ ok > 0
  /\ ok' = ok - 1
  /\ mpc' = "go"
  /\ UNCHANGED <<config, fsys, pcount, stats, stack, joinI, task, crashed, printed, run, hist>>

\* "<-ok; pcount--"
ScandirWait ==
  /\ Alive /\ mpc = "wait"
  /\ ok > 0
  /\ ok' = ok - 1
  /\ pcount' = pcount - 1
  /\ mpc' = "go"
  /\ UNCHANGED <<config, fsys, stats, stack, joinI, task, crashed, printed, run, hist>>

\* "go Import(name, dest)"
ScandirGo ==
  /\ Alive /\ mpc = "go"
  /\ task' = [task EXCEPT ![Top.files[Top.i]].pc = "exif"]
  /\ hist' = [hist EXCEPT !.spawns[Top.files[Top.i]] = @ + 1]
  /\ mpc' = "count"
  /\ UNCHANGED <<config, fsys, gate, stats, stack, joinI, crashed, printed, run>>

ScandirCountForgets ==
  /\ Alive /\ mpc = "count"
  /\ stack' = Replace(stack, [Top EXCEPT !.i = @ + 1])
  /\ mpc' = "loop"
  /\ UNCHANGED <<config, fsys, gate, stats, joinI, task, crashed, printed, run, hist>>

\* "pcount++" and the step of the range to the next entry.
ScandirCount ==
  /\ Alive /\ mpc = "count"
  /\ pcount' = pcount + 1
  /\ stack' = Replace(stack, [Top EXCEPT !.i = @ + 1])
  /\ mpc' = "loop"
  /\ UNCHANGED <<config, fsys, ok, stats, joinI, task, crashed, printed, run, hist>>

\* "for i := 0; i < pcount; i++ { <-ok }"
MainJoin ==
  /\ Alive /\ mpc = "join"
  /\ JoinMore
  /\ ok > 0
  /\ ok' = ok - 1
  /\ joinI' = joinI + 1
  /\ UNCHANGED <<config, fsys, pcount, stats, mpc, stack, task, crashed, printed, run, hist>>

\* The final Printf reads the four counters; main returns.
MainReport ==
  /\ Alive /\ mpc = "join"
  /\ ~JoinMore
  /\ printed' = stats
  /\ mpc' = "done"
  /\ UNCHANGED <<config, fsys, gate, stats, stack, joinI, task, crashed, run, hist>>

\* ------------------------------------------------------------ Import
ClassifyNoEmptyCheck(t) ==
  IF t.err THEN "statsNotExif"
  ELSE IF t.FileType = "MP3" THEN "stat"
  ELSE IF ~DateMatches(t.date) THEN "panic"
  ELSE "stat"

\* What Import does with the tags: the counter of an early end, a panic of
\* the date parsing (all[0] of no match), or the destination to stat.
Classify(t) ==
  IF t.err THEN "statsNotExif"
  ELSE IF t.FileType = "MP3" THEN "stat"
  ELSE IF t.date = "" THEN "statsNotExif"
  ELSE IF ~DateMatches(t.date) THEN "panic"
  ELSE "stat"

StatAlwaysFails(d) == TRUE

\* "_, err := os.Stat(rename); if err != nil"
StatFails(d) == dst[d].owner = 0

RealRunAlways == TRUE

\* "if *flagDryRun == false" around MkdirAll, Move and Copy.
RealRun == flagDryRun = FALSE

SkipCounterWrong == "statsNotExif"

\* The counter of a skipped file: "statsSkipped++".
SkipCounter == "statsSkipped"

\* The counter a placement increments.
PlaceCounter == IF flagMove THEN "statsMoved" ELSE "statsCopied"

\* Where Import goes after the MkdirAll block.
AfterMkdir == IF ~RealRun THEN "defer" ELSE IF flagMove THEN "rename" ELSE "create"

AfterStoreTwice(t) == IF t.n = 0 THEN "load" ELSE IF t.err THEN "panic" ELSE "defer"

\* Where a task goes after its increment: "if err != nil { panic(err) }".
AfterStore(t) == IF t.err THEN "panic" ELSE "defer"

\* A task writes file f at destination d; nil tells that this makes Copy or
\* Move return nil.
Written(d, f, full, nil) ==
  /\ dst' = [dst EXCEPT ![d] = [owner |-> f, full |-> full]]
  /\ hist' = [hist EXCEPT !.first[d] = IF @ = 0 THEN f ELSE @,
                          !.placed = IF nil THEN @ + 1 ELSE @]

\* getExifData and the switch on the file type, up to the computed path.
ImportExif(f) ==
  /\ Alive /\ task[f].pc = "exif"
  /\ LET c == Classify(tags[f]) IN
       task' = [task EXCEPT ![f].pc = IF c \in Counters THEN "load" ELSE c,
                            ![f].ctr = IF c \in Counters THEN c ELSE "none"]
  /\ UNCHANGED <<config, fsys, gate, stats, mpc, stack, joinI, crashed, printed, run, hist>>

\* os.Stat(rename): an existing destination is skipped.
ImportStat(f) ==
  /\ Alive /\ task[f].pc = "stat"
  /\ IF StatFails(Rename(tags[f]))
       THEN task' = [task EXCEPT ![f].pc = "mkdir"]
       ELSE task' = [task EXCEPT ![f].pc = "load", ![f].ctr = SkipCounter, ![f].found = TRUE]
  /\ UNCHANGED <<config, fsys, gate, stats, mpc, stack, joinI, crashed, printed, run, hist>>

\* os.MkdirAll(path.Dir(rename)) unless dry-run; an error panics.
ImportMkdir(f) ==
  /\ Alive /\ task[f].pc = "mkdir"
  /\ IF RealRun
       THEN \/ /\ dirs' = dirs \cup {Rename(tags[f])}
               /\ task' = [task EXCEPT ![f].pc = AfterMkdir, ![f].io = TRUE]
            \/ /\ task' = [task EXCEPT ![f].pc = "panic", ![f].io = TRUE]
               /\ UNCHANGED dirs
       ELSE /\ task' = [task EXCEPT ![f].pc = AfterMkdir]
            /\ UNCHANGED dirs
  /\ UNCHANGED <<config, srcExists, dst, gate, stats, mpc, stack, joinI, crashed, printed, run, hist>>

\* Move: os.Rename(src, dst); on an error Move falls back to Copy.
ImportRename(f) ==
  /\ Alive /\ task[f].pc = "rename"
  /\ \/ /\ Written(Rename(tags[f]), f, TRUE, TRUE)
        /\ srcExists' = [srcExists EXCEPT ![f] = FALSE]
        /\ task' = [task EXCEPT ![f].pc = "load", ![f].ctr = PlaceCounter, ![f].wrote = TRUE,
                                 ![f].io = TRUE, ![f].placed = TRUE]
     \/ /\ task' = [task EXCEPT ![f].pc = "create", ![f].io = TRUE]
        /\ UNCHANGED <<srcExists, dst, hist>>
  /\ UNCHANGED <<config, dirs, gate, stats, mpc, stack, joinI, crashed, printed, run>>

\* Copy: os.Open(src) and os.Create(dst), which truncates an existing file.
\* An error is returned to Import, which increments and then panics.
ImportCreate(f) ==
  /\ Alive /\ task[f].pc = "create"
  /\ \/ /\ Written(Rename(tags[f]), f, FALSE, FALSE)
        /\ task' = [task EXCEPT ![f].pc = "copy", ![f].wrote = TRUE, ![f].io = TRUE]
     \/ /\ task' = [task EXCEPT ![f].pc = "load", ![f].ctr = PlaceCounter, ![f].err = TRUE,
                                 ![f].io = TRUE]
        /\ UNCHANGED <<dst, hist>>
  /\ UNCHANGED <<config, srcExists, dirs, gate, stats, mpc, stack, joinI, crashed, printed, run>>

ImportCopyIgnoresErr(f) ==
  /\ Alive /\ task[f].pc = "copy"
  /\ \/ /\ Written(Rename(tags[f]), f, TRUE, ~flagMove)
        /\ task' = [task EXCEPT ![f].pc = IF flagMove THEN "remove" ELSE "load",
                                 ![f].ctr = PlaceCounter, ![f].placed = TRUE]
     \/ /\ task' = [task EXCEPT ![f].pc = IF flagMove THEN "remove" ELSE "load",
                                 ![f].ctr = PlaceCounter, ![f].err = TRUE]
        /\ UNCHANGED <<dst, hist>>
  /\ UNCHANGED <<config, srcExists, dirs, gate, stats, mpc, stack, joinI, crashed, printed, run>>

\* Copy: io.Copy(output, input).  In Move, a successful Copy is followed by
\* os.Remove(src).
ImportCopy(f) ==
  /\ Alive /\ task[f].pc = "copy"
  /\ \/ /\ Written(Rename(tags[f]), f, TRUE, ~flagMove)
        /\ task' = [task EXCEPT ![f].pc = IF flagMove THEN "remove" ELSE "load",
                                 ![f].ctr = PlaceCounter, ![f].placed = TRUE]
     \/ /\ task' = [task EXCEPT ![f].pc = "load", ![f].ctr = PlaceCounter, ![f].err = TRUE]
        /\ UNCHANGED <<dst, hist>>
  /\ UNCHANGED <<config, srcExists, dirs, gate, stats, mpc, stack, joinI, crashed, printed, run>>

\* Move: "return os.Remove(src)".
ImportRemove(f) ==
  /\ Alive /\ task[f].pc = "remove"
  /\ \/ /\ srcExists' = [srcExists EXCEPT ![f] = FALSE]
        /\ hist' = [hist EXCEPT !.placed = @ + 1]
        /\ task' = [task EXCEPT ![f].pc = "load"]
     \/ /\ task' = [task EXCEPT ![f].pc = "load", ![f].err = TRUE]
        /\ UNCHANGED <<srcExists, hist>>
  /\ UNCHANGED <<config, dst, dirs, gate, stats, mpc, stack, joinI, crashed, printed, run>>

\* "statsX++" is a read and a write of an unguarded global: the read.
ImportLoad(f) ==
  /\ Alive /\ task[f].pc = "load"
  /\ task' = [task EXCEPT ![f].pc = "store", ![f].tmp = stats[task[f].ctr]]
  /\ UNCHANGED <<config, fsys, gate, stats, mpc, stack, joinI, crashed, printed, run, hist>>

\* "statsX++": the write.
ImportStore(f) ==
  /\ Alive /\ task[f].pc = "store"
  /\ stats' = [stats EXCEPT ![task[f].ctr] = task[f].tmp + 1]
  /\ hist' = [hist EXCEPT !.incs[task[f].ctr] = @ + 1]
  /\ task' = [task EXCEPT ![f].pc = AfterStore(task[f]), ![f].tmp = 0, ![f].n = @ + 1]
  /\ UNCHANGED <<config, fsys, gate, mpc, stack, joinI, crashed, printed, run>>

ImportDeferOnReturn(f) ==
  /\ Alive /\ task[f].pc \in {"defer", "panic"}
  /\ IF task[f].pc = "defer"
       THEN /\ ok < flagMaxProcs
            /\ ok' = ok + 1
            /\ task' = [task EXCEPT ![f].pc = "done", ![f].sent = @ + 1]
       ELSE /\ task' = [task EXCEPT ![f].pc = "fatal"]
            /\ UNCHANGED ok
  /\ UNCHANGED <<config, fsys, pcount, stats, mpc, stack, joinI, crashed, printed, run, hist>>

\* The deferred "ok <- 1", on a return and on a panic alike; the send waits
\* while the buffer is full.
ImportDefer(f) ==
  /\ Alive /\ task[f].pc \in {"defer", "panic"}
  /\ ok < flagMaxProcs
  /\ ok' = ok + 1
  /\ task' = [task EXCEPT ![f].pc = IF @ = "defer" THEN "done" ELSE "fatal",
                           ![f].sent = @ + 1]
  /\ UNCHANGED <<config, fsys, pcount, stats, mpc, stack, joinI, crashed, printed, run, hist>>

\* An unrecovered panic of a goroutine ends the process once its deferred
\* calls have run.
ProcessAbort ==
  /\ Alive
  /\ \E f \in Files : task[f].pc = "fatal"
  /\ crashed' = TRUE
  /\ UNCHANGED <<config, fsys, gate, stats, mpc, stack, joinI, task, printed, run, hist>>

Import(f) ==
  \/ ImportExif(f) \/ ImportStat(f) \/ ImportMkdir(f) \/ ImportRename(f)
  \/ ImportCreate(f) \/ ImportCopy(f) \/ ImportRemove(f)
  \/ ImportLoad(f) \/ ImportStore(f) \/ ImportDefer(f)

\* What the task of f did in the run that has ended.
Outcome(f) ==
  IF task[f].pc = "idle" THEN "none"
  ELSE IF task[f].pc # "done" THEN "failed"
  ELSE IF task[f].n = 0 THEN "preview"
  ELSE task[f].ctr

\* The program is run again on the same trees with the same flags.
Restart ==
  /\ mpc = "done" /\ ~crashed
  /\ run < MaxRuns
  /\ run' = run + 1
  /\ pcount' = 0 /\ ok' = 0 /\ stats' = ZeroStats /\ mpc' = "start"
  /\ stack' = << >> /\ joinI' = 0 /\ task' = [f \in Files |-> IdleTask]
  /\ crashed' = FALSE /\ printed' = << >>
  /\ hist' = [hist EXCEPT !.incs = ZeroStats, !.dst0 = dst, !.dirs0 = dirs,
                          !.src0 = srcExists, !.prev = [f \in Files |-> Outcome(f)],
                          !.placed = 0, !.spawns = [f \in Files |-> 0]]
  /\ UNCHANGED <<config, fsys>>

Scandir == ScandirEnter \/ ScandirLoop \/ ScandirWait \/ ScandirGo \/ ScandirCount
Main == MainStart \/ Scandir \/ MainJoin \/ MainReport

Next ==
  \/ Main
  \/ \E f \in Files : Import(f)
  \/ ProcessAbort
  \/ Restart

Spec == Init /\ [][Next]_vars

FairSpec ==
  /\ Init /\ [][Next]_vars
  /\ WF_vars(Main)
  /\ \A f \in Files : WF_vars(Import(f))
  /\ WF_vars(ProcessAbort)

\* ------------------------------------------------------------ naming
\* Strings are sequences of characters; a character is a one-letter string,
\* or the name of an accented letter.
MaxLen == 4

Uppers == <<"A", "B", "C", "D", "E", "F", "G", "H", "I", "J", "K", "L", "M",
            "N", "O", "P", "Q", "R", "S", "T", "U", "V", "W", "X", "Y", "Z">>
Lowers == <<"a", "b", "c", "d", "e", "f", "g", "h", "i", "j", "k", "l", "m",
            "n", "o", "p", "q", "r", "s", "t", "u", "v", "w", "x", "y", "z">>
Digits == {"0", "1", "2", "3", "4", "5", "6", "7", "8", "9"}
Range(q) == {q[i] : i \in 1..Len(q)}

\* The classes of the regular expressions of textilize.
ClassA == {"aacute", "auml", "acirc", "atilde", "agrave"}
ClassE == {"eacute", "euml", "ecirc", "etilde", "egrave"}
ClassI == {"iacute", "iuml", "icirc", "itilde", "igrave"}
ClassO == {"oacute", "ouml", "ocirc", "otilde", "ograve"}
ClassU == {"uacute", "uuml", "ucirc", "utilde", "ugrave"}
ClassN == {"ntilde"}
AzDigit == Range(Lowers) \cup Digits

\* strings.ToLowerSpecial with an empty SpecialCase is unicode.ToLower.
LowerChar(c) ==
  IF c \in Range(Uppers) THEN Lowers[CHOOSE i \in 1..Len(Uppers) : Uppers[i] = c]
  ELSE IF c = "Eacute" THEN "eacute"
  ELSE IF c = "Ntilde" THEN "ntilde"
  ELSE c
ToLower(str) == [i \in 1..Len(str) |-> LowerChar(str[i])]

\* re.ReplaceAllLiteralString for a one-character class.
ReplaceClass(str, class, by) == [i \in 1..Len(str) |-> IF str[i] \in class THEN by ELSE str[i]]

\* re.ReplaceAllLiteralString(output, " ") for the expression " +".
RECURSIVE CollapseSpaces(_)
CollapseSpaces(str) ==
  IF Len(str) < 2 THEN str
  ELSE IF str[1] = " " /\ str[2] = " " THEN CollapseSpaces(Tail(str))
  ELSE <<str[1]>> \o CollapseSpaces(Tail(str))

\* strings.TrimSpace
RECURSIVE TrimSpace(_)
TrimSpace(str) ==
  IF str = << >> THEN str
  ELSE IF str[1] = " " THEN TrimSpace(Tail(str))
  ELSE IF str[Len(str)] = " " THEN TrimSpace(SubSeq(str, 1, Len(str) - 1))
  ELSE str

textilizeNoCollapse(input) ==
  LET lower == ToLower(input)
      a == ReplaceClass(lower, ClassA, "a")
      e == ReplaceClass(a, ClassE, "e")
      i == ReplaceClass(e, ClassI, "i")
      o == ReplaceClass(i, ClassO, "o")
      u == ReplaceClass(o, ClassU, "u")
      n == ReplaceClass(u, ClassN, "n")
      sp == [k \in 1..Len(n) |-> IF n[k] \in AzDigit THEN n[k] ELSE " "]
  IN ReplaceClass(TrimSpace(sp), {" "}, "_")

\* func textilize
textilize(input) ==
  LET lower == ToLower(input)
      a == ReplaceClass(lower, ClassA, "a")
      e == ReplaceClass(a, ClassE, "e")
      i == ReplaceClass(e, ClassI, "i")
      o == ReplaceClass(i, ClassO, "o")
      u == ReplaceClass(o, ClassU, "u")
      n == ReplaceClass(u, ClassN, "n")
      sp == [k \in 1..Len(n) |-> IF n[k] \in AzDigit THEN n[k] ELSE " "]
      one == CollapseSpaces(sp)
  IN ReplaceClass(TrimSpace(one), {" "}, "_")

\* strings.Join(name, "-")
RECURSIVE JoinHyphen(_)
JoinHyphen(names) ==
  IF names = << >> THEN << >>
  ELSE IF Len(names) = 1 THEN names[1]
  ELSE names[1] \o <<"-">> \o JoinHyphen(Tail(names))

\* The loop of normalize: textilize of the chunks that are not empty
\* (strings.Trim with an empty cutset leaves the chunk as it is).
RECURSIVE Textilized(_)
Textilized(chunks) ==
  IF chunks = << >> THEN << >>
  ELSE IF chunks[1] # << >> THEN <<textilize(chunks[1])>> \o Textilized(Tail(chunks))
  ELSE Textilized(Tail(chunks))

normalizeFirstOnly(chunks) ==
  IF Textilized(chunks) = << >> THEN << >> ELSE Textilized(chunks)[1]

\* func normalize
normalize(chunks) == JoinHyphen(Textilized(chunks))

\* func pick
RECURSIVE pick(_)
pick(values) ==
  IF values = << >> THEN << >>
  ELSE IF TrimSpace(values[1]) # << >> THEN TrimSpace(values[1])
  ELSE pick(Tail(values))

UnknownArtist == <<"U", "n", "k", "n", "o", "w", "n", " ", "A", "r", "t", "i", "s", "t">>
UnknownAlbum == <<"U", "n", "k", "n", "o", "w", "n", " ", "A", "l", "b", "u", "m">>
UnknownTitle == <<"U", "n", "k", "n", "o", "w", "n", " ", "T", "i", "t", "l", "e">>
DotMp3 == <<".", "m", "p", "3">>
DestRoot == <<"t", "o">>

\* The MP3 case of Import: the segments of rename, which Import joins with
\* the path separator.  t holds the tags, the extension of the file name
\* (path.Ext) and the first four characters of the hash.
MP3Rename(t) ==
  << DestRoot,
     normalize(<<pick(<<t.Artist, UnknownArtist>>)>>),
     normalize(<<pick(<<t.Album, UnknownAlbum>>)>>),
     normalize(<<t.Track, pick(<<t.Title, UnknownTitle>>) \o <<"-">> \o t.hash>>)
       \o pick(<<ToLower(t.ext), DotMp3>>) >>

\* The inputs of the naming code: a chunk of at most MaxLen characters, or
\* the tags of an MP3 file.
Alphabet == {"A", "b", "1", " ", "-", "Eacute", "ntilde"}
Chunks == UNION {[1..n -> Alphabet] : n \in 0..MaxLen}
ChunkInputs == [kind : {"chunk"}, chunk : Chunks]
DaftPunk == <<"D", "a", "f", "t", " ", "P", "u", "n", "k">>
Discovery == <<"D", "i", "s", "c", "o", "v", "e", "r", "y">>
OneMoreTime == <<"O", "n", "e", " ", "M", "o", "r", "e", " ", "T", "i", "m", "e">>
MP3Tags ==
  [kind : {"mp3"}, Artist : {<< >>, DaftPunk}, Album : {<< >>, Discovery},
   Track : {<< >>, <<"1">>, <<" ">>}, Title : {<< >>, OneMoreTime},
   ext : {<< >>, <<".", "M", "P", "3">>}, hash : {<<"a", "b", "1", "2">>}]

\* normalize(chunk) is called.
NormalizeChunk ==
  /\ nin.kind = "chunk" /\ nout = << >>
  /\ nout' = <<normalize(<<nin.chunk>>)>>
  /\ UNCHANGED <<flagMaxProcs, flagMove, flagDryRun, rootsOK, tree, readable, tags, nin,
                 fsys, gate, stats, mpc, stack, joinI, task, crashed, printed, run, hist>>

\* Import builds rename for an MP3 file.
NameMP3 ==
  /\ nin.kind = "mp3" /\ nout = << >>
  /\ nout' = <<MP3Rename(nin)>>
  /\ UNCHANGED <<flagMaxProcs, flagMove, flagDryRun, rootsOK, tree, readable, tags, nin,
                 fsys, gate, stats, mpc, stack, joinI, task, crashed, printed, run, hist>>

NamingInit ==
  /\ flagMaxProcs = 1 /\ flagMove = FALSE /\ flagDryRun = FALSE /\ rootsOK = TRUE
  /\ tree \in Trees /\ readable \in Readable(tree)
  /\ tags = [f \in Files |-> CHOOSE t \in TagSets : t.FileType = "MP3"]
  /\ srcExists = [f \in Files |-> TRUE]
  /\ dst = [d \in Dests |-> NoFile]
  /\ dirs = {}
  /\ ProcInit
  /\ run = 1
  /\ hist = HistInit(dst, dirs)
  /\ nin \in ChunkInputs \cup MP3Tags
  /\ nout = << >>

NamingNext == NormalizeChunk \/ NameMP3

NamingSpec == NamingInit /\ [][NamingNext]_vars

\* ============================================================ properties

\* C1 -- Concurrency bound: for a limit N >= 1, the Import tasks that were
\* started and have not yet sent their token on ok are never more than N.
C1_ConcurrencyBound ==
  flagMaxProcs >= 1 => Cardinality(Running) <= flagMaxProcs

\* C1 witness: the walker waits at the gate while N = 1 task is running.
C1_Witness ==
  flagMaxProcs = 1 /\ mpc = "wait" /\ ok = 0 /\ Cardinality(Running) = 1

\* The tasks of the run that wrote destination d (Create or Rename).
Writers(d) == {f \in Files : task[f].wrote /\ Rename(tags[f]) = d}

\* C2 -- Destination collision (as claimed): of the files that classify to
\* one destination path at most one writes it in a run, and the content
\* written first is never overwritten.
C2_Collision ==
  \A d \in Dests :
    /\ Cardinality(Writers(d)) <= 1
    /\ hist.first[d] # 0 => dst[d].owner = hist.first[d]

\* C3 -- No lost updates (as claimed): each counter, as read for the report,
\* equals the number of increments performed on it.
C3_NoLostUpdates ==
  mpc = "done" => \A c \in Counters : printed[c] = hist.incs[c]

\* C4 -- Join barrier: when main reads the counters for the report, every
\* task Scandir started has run its increments and sent its token.
C4_JoinBarrier ==
  mpc = "done" => Running = {}

\* C4 witness: a report after the walker had to wait at the gate: every file
\* got a task, with a limit below the number of files.
C4_Witness ==
  /\ mpc = "done" /\ flagMaxProcs = 1
  /\ \A f \in Files : task[f].pc = "done"

\* A task of the run has panicked, or the process has died of it.
Failed == crashed \/ \E f \in Files : task[f].pc \in {"panic", "fatal"}

\* C5 -- Termination: with a limit N >= 1 and valid roots, a run in which no
\* task fails reaches the final report, under fair scheduling of the
\* goroutines.
C5_Termination ==
  (flagMaxProcs >= 1 /\ rootsOK) ~> (mpc = "done" \/ Failed)

\* C5 witness: a report of a run in which the walker had to wait at the gate
\* and no task failed.
C5_Witness ==
  /\ mpc = "done" /\ ~Failed /\ flagMaxProcs = 1 /\ pcount = 1 /\ joinI = 1
  /\ Cardinality(Started) = MaxFiles

\* The walker is at a regular file, before the gate test or waiting on ok.
AtFile ==
  \/ mpc = "wait"
  \/ mpc = "loop" /\ Top.i <= Len(Top.files) /\ ~IsDir(Top.files[Top.i])

\* C6 -- Admission: at a regular file with fewer than N tasks running, the
\* walker does not block (pcount is below the limit or a token is buffered);
\* it is blocked on ok only when exactly N tasks are running, and a token is
\* there for it as soon as one of them has completed.
C6_Admission ==
  /\ (AtFile /\ Cardinality(Running) < flagMaxProcs)
        => (pcount < flagMaxProcs \/ ok > 0)
  /\ (mpc = "wait" /\ ok = 0) => Cardinality(Running) = flagMaxProcs

\* C6 witness: the walker is at the gate with pcount at the limit, and goes on
\* because the task has completed and its token is buffered.
C6_Witness ==
  /\ mpc = "wait" /\ flagMaxProcs = 1 /\ pcount = 1
  /\ ok = 1 /\ Running = {}

\* C7 -- Dry-run: with the dry-run flag no directory is created, no
\* destination is written and no source is removed in the run, and
\* statsCopied and statsMoved stay 0.
C7_DryRun ==
  flagDryRun =>
    /\ dst = hist.dst0 /\ dirs = hist.dirs0 /\ srcExists = hist.src0
    /\ stats.statsCopied = 0 /\ stats.statsMoved = 0
    /\ hist.incs.statsCopied = 0 /\ hist.incs.statsMoved = 0

\* C7 witness: a dry run has reported; one task previewed a placement and
\* another one skipped an existing destination.
C7_Witness ==
  /\ flagDryRun /\ mpc = "done"
  /\ \E f \in Files : task[f].pc = "done" /\ task[f].ctr = "none"
  /\ \E f \in Files : task[f].pc = "done" /\ task[f].ctr = "statsSkipped"

\* The first run was a real run that reported with no task failed, and it
\* left the source tree as it was.
CleanFirstRun ==
  /\ run = 2 /\ ~flagDryRun
  /\ \A f \in Files : hist.prev[f] # "failed" /\ hist.src0[f]

\* C8 -- Idempotence (as claimed): a second run on the unchanged source tree
\* leaves the destination unchanged and counts every file Skipped.
C8_Idempotence ==
  CleanFirstRun =>
    /\ dst = hist.dst0 /\ dirs = hist.dirs0
    /\ \A f \in Files : task[f].pc = "done" => task[f].ctr = "statsSkipped"

\* C8 (amended): the second run leaves the destination unchanged; every file
\* that classifies to a destination is counted Skipped and every file with
\* no usable metadata is counted NoMetadata again.
C8_IdempotenceAmended ==
  CleanFirstRun =>
    /\ dst = hist.dst0 /\ dirs = hist.dirs0 /\ srcExists = hist.src0
    /\ ~Failed
    /\ \A f \in Files :
         task[f].pc = "done" =>
           /\ task[f].n = 1
           /\ task[f].ctr = IF Classify(tags[f]) = "stat" THEN "statsSkipped"
                             ELSE "statsNotExif"

\* C8 witness: the second run has reported after a first run that copied a
\* file; one file was skipped and one was counted NoMetadata.
C8_Witness ==
  /\ CleanFirstRun /\ mpc = "done"
  /\ \E f \in Files : hist.prev[f] = "statsCopied" /\ task[f].ctr = "statsSkipped"
  /\ \E f \in Files : task[f].pc = "done" /\ task[f].ctr = "statsNotExif"

\* C9 -- Failure isolation (as claimed): the failure of one file's task does
\* not end the run: the process never dies before the final report.
C9_FailureIsolation ==
  crashed => mpc = "done"

\* C10 -- Exactly-once accounting (as claimed): a task that has returned has
\* performed exactly one increment.
C10_ExactlyOnce ==
  \A f \in Files : task[f].pc = "done" => task[f].n = 1

\* C10 (amended): a task that has returned has performed exactly one
\* increment, on one counter, except in a dry run when its destination did
\* not exist: then it has performed none.
C10_ExactlyOnceAmended ==
  \A f \in Files :
    task[f].pc = "done" =>
      IF flagDryRun /\ task[f].ctr = "none"
        THEN task[f].n = 0 /\ Classify(tags[f]) = "stat"
        ELSE task[f].n = 1 /\ task[f].ctr \in Counters

\* C10 witness: a dry run has reported; one task previewed its placement and
\* performed no increment, another one performed its one increment.
C10_Witness ==
  /\ mpc = "done" /\ flagDryRun
  /\ \E f \in Files : task[f].pc = "done" /\ task[f].n = 0 /\ task[f].ctr = "none"
  /\ \E f \in Files : task[f].pc = "done" /\ task[f].n = 1 /\ task[f].ctr = "statsNotExif"

\* C11 -- Skip on existing destination: a task whose destination exists when
\* os.Stat checks it calls no MkdirAll, Copy, Rename or Remove, increments
\* statsSkipped once and no other counter, in a dry run and in a real run.
C11_SkipExisting ==
  \A f \in Files :
    task[f].found =>
      /\ ~task[f].io /\ ~task[f].wrote /\ ~task[f].err
      /\ task[f].ctr = "statsSkipped"
      /\ task[f].pc \in {"load", "store", "defer", "done"}
      /\ task[f].n = IF task[f].pc \in {"defer", "done"} THEN 1 ELSE 0

\* C11 witness: a dry run has reported, and a task has skipped a file whose
\* destination was there before the run.
C11_Witness ==
  /\ mpc = "done" /\ flagDryRun
  /\ \E f \in Files : /\ task[f].found /\ task[f].pc = "done"
                       /\ dst[Rename(tags[f])] = OldFile

\* getExifData fails for f, or f is no MP3 and has no date tag.
NoMeta(f) == tags[f].err \/ (tags[f].FileType # "MP3" /\ tags[f].date = "")

\* C12 -- Metadata errors are not fatal: the task of a file with a metadata
\* error or with no date tag increments statsNotExif once, no other counter,
\* touches no file, does not panic and sends its token.
C12_MetadataNonFatal ==
  \A f \in Files :
    (NoMeta(f) /\ task[f].pc # "idle") =>
      /\ ~task[f].io /\ ~task[f].wrote /\ ~task[f].err
      /\ task[f].pc \in {"exif", "load", "store", "defer", "done"}
      /\ task[f].ctr = IF task[f].pc = "exif" THEN "none" ELSE "statsNotExif"
      /\ task[f].n = IF task[f].pc \in {"defer", "done"} THEN 1 ELSE 0
      /\ task[f].sent = IF task[f].pc = "done" THEN 1 ELSE 0

\* C12 witness: the run has reported; one file had a metadata error and one
\* had no date tag, and both tasks have returned.
C12_Witness ==
  /\ mpc = "done"
  /\ \E f \in Files : tags[f].err /\ task[f].pc = "done"
  /\ \E f \in Files : ~tags[f].err /\ NoMeta(f) /\ task[f].pc = "done"

\* C15 -- Gate release on every exit path: a task sends one token on ok when
\* it ends, by a return or by a panic, and none before.
C15_GateRelease ==
  \A f \in Files :
    task[f].sent = IF task[f].pc \in {"done", "fatal"} THEN 1 ELSE 0

\* C15 witness: a task has ended by the panic of a placement error and has
\* sent its token, another one has returned.
C15_Witness ==
  /\ \E f \in Files : task[f].pc = "fatal" /\ task[f].err /\ task[f].sent = 1
  /\ \E f \in Files : task[f].pc = "done" /\ task[f].sent = 1

\* C16 -- Counters count successes only (as claimed): a task increments
\* statsCopied or statsMoved only if its Copy or Move returned nil, and the
\* two counters together never exceed the placements that succeeded.
C16_SuccessOnly ==
  /\ \A f \in Files :
       (task[f].ctr \in {"statsCopied", "statsMoved"} /\ task[f].n > 0) => ~task[f].err
  /\ stats.statsCopied + stats.statsMoved <= hist.placed

\* C17 -- Source preservation: without -move no source file disappears; with
\* -move a source is gone only after os.Rename succeeded or Copy returned
\* nil, so a failed fallback copy leaves it in place.
C17_SourcePreserved ==
  \A f \in Files :
    /\ ~flagMove => srcExists[f] = hist.src0[f]
    /\ (hist.src0[f] /\ ~srcExists[f]) => (flagMove /\ task[f].placed)
    /\ (task[f].err /\ ~task[f].placed) => srcExists[f] = hist.src0[f]

\* C17 witness: in a Move, os.Rename failed and the fallback Copy failed; the
\* task is about to panic and the source file is still there.
C17_Witness ==
  \E f \in Files :
    /\ flagMove /\ task[f].pc = "panic" /\ task[f].err /\ ~task[f].placed
    /\ task[f].wrote /\ srcExists[f]

\* File f is an entry of a directory that Scandir can list.
InTree(f) ==
  \/ \E i \in 1..Len(tree[Root]) : tree[Root][i] = f
  \/ readable /\ \E i \in 1..Len(tree[Sub]) : tree[Sub][i] = f

\* C18 -- Traversal error containment: when a sub-directory cannot be listed
\* the walk goes on: at its end every regular file of the directories that
\* can be listed got one task, and no file ever gets two.
C18_TraversalContained ==
  \A f \in Files :
    /\ hist.spawns[f] <= 1
    /\ mpc \in {"join", "done"} =>
         hist.spawns[f] = IF InTree(f) /\ hist.src0[f] THEN 1 ELSE 0

\* C18 witness: the sub-directory between two files cannot be listed; the
\* task of the file before it and the task of the file after it have both
\* returned.
C18_Witness ==
  /\ ~readable /\ tree[Root][2] = 0 /\ mpc = "done"
  /\ task[1].pc = "done" /\ task[2].pc = "done"

\* C19 -- The completion send never blocks: with N >= 1 the running tasks
\* and the buffered tokens are together at most N and pcount is in 0..N, so
\* the buffer is not full when a task is at its send.
C19_SendNeverBlocks ==
  flagMaxProcs >= 1 =>
    /\ Cardinality(Running) + ok <= flagMaxProcs
    /\ pcount \in 0..flagMaxProcs
    /\ \A f \in Files : task[f].pc \in {"defer", "panic"} => ok < flagMaxProcs

\* C19 witness: with N = 1 a token is buffered, the walker has not taken it
\* yet and is at the gate for the next file.
C19_Witness ==
  /\ flagMaxProcs = 1 /\ ok = 1 /\ pcount = 1 /\ mpc = "loop"
  /\ \E f \in Files : task[f].pc = "done"
  /\ \E f \in Files : task[f].pc = "idle" /\ InTree(f)

\* C20 -- Zero limit: with N = 0 and a regular file in the tree no task is
\* ever started and main never gets past Scandir to the report.
C20_ZeroLimit ==
  (flagMaxProcs = 0 /\ \E f \in Files : InTree(f) /\ hist.src0[f]) =>
    /\ Started = {}
    /\ mpc \in {"start", "exit", "enter", "loop", "wait"}

\* C20 witness: with N = 0 the walker is blocked on the empty channel at the
\* first file, with no task started.
C20_Witness ==
  /\ flagMaxProcs = 0 /\ mpc = "wait" /\ ok = 0 /\ pcount = 0
  /\ Started = {} /\ Top.i = 1

\* ------------------------------------------------------------ naming claims
\* A character lower-cased, with the accented letters of the six classes
\* mapped to their plain letter and every other character outside a-z, 0-9
\* turned into a space.
FoldChar(c) ==
  LET l == LowerChar(c)
  IN IF l \in ClassA THEN "a" ELSE IF l \in ClassE THEN "e"
     ELSE IF l \in ClassI THEN "i" ELSE IF l \in ClassO THEN "o"
     ELSE IF l \in ClassU THEN "u" ELSE IF l \in ClassN THEN "n"
     ELSE IF l \in AzDigit THEN l ELSE " "
Fold(str) == [i \in 1..Len(str) |-> FoldChar(str[i])]

\* The words of a string: its maximal runs of characters other than space.
RECURSIVE Words(_)
Words(str) ==
  IF str = << >> THEN << >>
  ELSE IF str[1] = " " THEN Words(Tail(str))
  ELSE LET stops == {k \in 1..Len(str) : str[k] = " "}
           n == IF stops = {} THEN Len(str) + 1
                ELSE CHOOSE k \in stops : \A j \in stops : k <= j
       IN <<SubSeq(str, 1, n - 1)>> \o Words(SubSeq(str, n, Len(str)))

RECURSIVE JoinWith(_, _)
JoinWith(words, sep) ==
  IF words = << >> THEN << >>
  ELSE IF Len(words) = 1 THEN words[1]
  ELSE words[1] \o <<sep>> \o JoinWith(Tail(words), sep)

\* The folded words of a string, joined by sep.
WordsJoined(str, sep) == JoinWith(Words(Fold(str)), sep)

Normalized == nout # << >> /\ nin.kind = "chunk"
Named == nout # << >> /\ nin.kind = "mp3"

\* C14 (as claimed): normalize of one chunk is the chunk's folded words joined
\* by hyphens, so the result has only characters of a-z, 0-9 and "-".
C14_NormalizeHyphen ==
  Normalized =>
    /\ nout[1] = WordsJoined(nin.chunk, "-")
    /\ Range(nout[1]) \subseteq AzDigit \cup {"-"}

\* C14 (amended): normalize of one chunk is the chunk's folded words joined by
\* underscores, so the result has only characters of a-z, 0-9 and "_", it
\* neither starts nor ends with "_" and has no two "_" in a row.
C14_NormalizeUnderscore ==
  Normalized =>
    /\ nout[1] = WordsJoined(nin.chunk, "_")
    /\ Range(nout[1]) \subseteq AzDigit \cup {"_"}
    /\ nout[1] # << >> => nout[1][1] # "_" /\ nout[1][Len(nout[1])] # "_"
    /\ \A k \in 1..(Len(nout[1]) - 1) : ~(nout[1][k] = "_" /\ nout[1][k + 1] = "_")

\* "É-ñ" has been normalized to "e_n".
C14_Witness ==
  /\ Normalized
  /\ nin.chunk = <<"Eacute", "-", "ntilde">>
  /\ nout[1] = <<"e", "_", "n">>

\* What the MP3 rule reads: a tag or its default, the title chunk with the
\* first four characters of the hash, and the extension.
TagOr(tag, default) == IF TrimSpace(tag) # << >> THEN TrimSpace(tag) ELSE default
TitleHash(t) == TagOr(t.Title, UnknownTitle) \o <<"-">> \o t.hash
ExtOf(t) == TagOr(ToLower(t.ext), DotMp3)
IsExample(t) ==
  /\ t.Artist = DaftPunk /\ t.Album = Discovery
  /\ t.Track = <<"1">> /\ t.Title = OneMoreTime

\* C13 (as claimed): the last segment of an MP3 file's destination is
\* normalize(Track) + ext when Track is not empty, and is built from the
\* title and the hash only when Track is empty; the example file goes to
\* to/daft-punk/discovery/1.mp3.
C13_MP3Name ==
  Named =>
    /\ nin.Track # << >> => nout[1][4] = WordsJoined(nin.Track, "-") \o ExtOf(nin)
    /\ nin.Track = << >> => nout[1][4] = WordsJoined(TitleHash(nin), "-") \o ExtOf(nin)
    /\ IsExample(nin) /\ nin.ext # << >> =>
         nout[1] = << DestRoot,
                      <<"d", "a", "f", "t", "-", "p", "u", "n", "k">>,
                      <<"d", "i", "s", "c", "o", "v", "e", "r", "y">>,
                      <<"1", ".", "m", "p", "3">> >>

\* C13 (amended): the last segment always holds the normalized title-and-hash
\* chunk, and the normalized Track and a hyphen come before it when Track is
\* not the empty string; words are joined by underscores; the example file
\* goes to to/daft_punk/discovery/1-one_more_time_ab12.mp3.
C13_MP3NameAmended ==
  Named =>
    /\ Len(nout[1]) = 4
    /\ nout[1][1] = DestRoot
    /\ nout[1][2] = WordsJoined(TagOr(nin.Artist, UnknownArtist), "_")
    /\ nout[1][3] = WordsJoined(TagOr(nin.Album, UnknownAlbum), "_")
    /\ nin.Track # << >> =>
         nout[1][4] = WordsJoined(nin.Track, "_") \o <<"-">>
                        \o WordsJoined(TitleHash(nin), "_") \o ExtOf(nin)
    /\ nin.Track = << >> => nout[1][4] = WordsJoined(TitleHash(nin), "_") \o ExtOf(nin)
    /\ IsExample(nin) =>
         nout[1] = << DestRoot,
                      <<"d", "a", "f", "t", "_", "p", "u", "n", "k">>,
                      <<"d", "i", "s", "c", "o", "v", "e", "r", "y">>,
                      <<"1", "-", "o", "n", "e", "_", "m", "o", "r", "e", "_",
                        "t", "i", "m", "e", "_", "a", "b", "1", "2",
                        ".", "m", "p", "3">> >>

\* The example file, with the extension .MP3, has been named.
C13_Witness ==
  /\ Named /\ IsExample(nin) /\ nin.ext = <<".", "M", "P", "3">>
  /\ nout[1][4] = <<"1", "-", "o", "n", "e", "_", "m", "o", "r", "e", "_",
                    "t", "i", "m", "e", "_", "a", "b", "1", "2", ".", "m", "p", "3">>

====
